---- MODULE Spec2Model ----
(***************************************************************************)
(* A model of libwyag.py: the object store (write_object / read_object /  *)
(* hash_object), the commit header format (parse_commit_format /          *)
(* serialize_commit_format) and the history walk (log_graphviz).          *)
(*                                                                         *)
(* Byte strings are sequences of one-character strings; the NUL byte is    *)
(* written "NUL".  Positions are Python's: 0-based, -1 for "not found".    *)
(***************************************************************************)
EXTENDS Integers, Sequences, FiniteSets, TLC

VARIABLES
    dirs,       \* the 2-character subdirectories that exist under .git/objects
    files,      \* path <<dir, name>> -> the bytes of the file at that path
    digest,     \* frame -> hex digest: the values sha1 has taken so far
    res,        \* outcome of the last sequential call (Put, Get, hash_object)
    returned,   \* the [type, data, sha] of every Put that has returned
    wpc,        \* writer -> position inside write_object
    wjob,       \* writer -> the object it is writing, its frame / sha, its puts so far
    wres,       \* writer -> outcome of its last write_object
    rres,       \* outcome of the concurrent reader's last read_object
    input,      \* the argument of the commit-format functions
    output,     \* their result
    wstack,     \* the call stack of log_graphviz
    seen,       \* log_graphviz's visited set
    edges,      \* the edges log_graphviz has printed, in order
    expanded,   \* the ids log_graphviz has resolved with read_object, in order
    walk        \* state of the walk: its start id and outcome

vars == <<dirs, files, digest, res, returned, wpc, wjob, wres, rres,
          input, output, wstack, seen, edges, expanded, walk>>

storeVars == <<dirs, files, digest>>
seqVars == <<res, returned>>
concVars == <<wpc, wjob, wres, rres>>
fmtVars == <<input, output>>
walkVars == <<wstack, seen, edges, expanded, walk>>

-----------------------------------------------------------------------------
(* Bounds of the model *)

\* size of the largest generated commit record: one per header line plus
\* the bytes of its value
MaxSize == 4
\* longest raw payload handed to parse_commit_format
MaxRawLen == 5
\* longest tail after the type word of a generated stored byte sequence
MaxTailLen == 3
\* most distinct frames hashed in one run of the sequential store
MaxObjects == 3
\* most write_object calls per concurrent writer
MaxPuts == 2
\* most commits put before a walk
MaxCommits == 4

-----------------------------------------------------------------------------
(* Bytes and Python's bytes operations *)

SP == " "
NL == "\n"
NUL == "NUL"

B_blob == <<"b", "l", "o", "b">>
B_commit == <<"c", "o", "m", "m", "i", "t">>
B_tree == <<"t", "r", "e", "e">>
B_tag == <<"t", "a", "g">>
B_parent == <<"p", "a", "r", "e", "n", "t">>

Digits == <<"0", "1", "2", "3", "4", "5", "6", "7", "8", "9">>

DigitSet == {Digits[i] : i \in 1..Len(Digits)}

DigitVal(c) == (CHOOSE i \in 1..Len(Digits) : Digits[i] = c) - 1

\* bytes.isspace over the model's alphabet
Whitespace == {SP, NL}

MinOf(S) == CHOOSE x \in S : \A y \in S : x <= y

\* raw.find(c, start): first position >= start holding c, else -1
Find(raw, c, start) ==
    LET hits == {i \in start..(Len(raw) - 1) : raw[i + 1] = c}
    IN  IF hits = {} THEN -1 ELSE MinOf(hits)

\* Python's slice index normalisation for a sequence of length n
Norm(k, n) ==
    IF k < 0 THEN (IF n + k < 0 THEN 0 ELSE n + k)
    ELSE IF k > n THEN n ELSE k

\* raw[i:j]
Slice(raw, i, j) ==
    LET lo == Norm(i, Len(raw))
        hi == Norm(j, Len(raw))
    IN  IF lo >= hi THEN <<>> ELSE SubSeq(raw, lo + 1, hi)

\* raw[i:]
SliceFrom(raw, i) == Slice(raw, i, Len(raw))

RECURSIVE LStrip(_)
LStrip(s) == IF s # <<>> /\ Head(s) \in Whitespace THEN LStrip(Tail(s)) ELSE s

RECURSIVE RStrip(_)
RStrip(s) ==
    IF s # <<>> /\ s[Len(s)] \in Whitespace
    THEN RStrip(SubSeq(s, 1, Len(s) - 1)) ELSE s

RECURSIVE DecVal(_)
DecVal(s) ==
    IF s = <<>> THEN 0
    ELSE 10 * DecVal(SubSeq(s, 1, Len(s) - 1)) + DigitVal(s[Len(s)])

\* int(s.decode('ascii')): surrounding whitespace is stripped, then one or more
\* digits are required (the alphabet has no sign and no underscore)
IntParse(s) ==
    LET t == RStrip(LStrip(s))
    IN  IF t # <<>> /\ \A i \in 1..Len(t) : t[i] \in DigitSet
        THEN [ok |-> TRUE, val |-> DecVal(t)]
        ELSE [ok |-> FALSE, val |-> 0]

\* str(n).encode()
RECURSIVE ToDecimal(_)
ToDecimal(n) ==
    IF n < 10 THEN <<Digits[n + 1]>>
    ELSE ToDecimal(n \div 10) \o <<Digits[(n % 10) + 1]>>

\* value.replace(b'\n', b'\n ')
RECURSIVE Fold(_)
Fold(v) ==
    IF v = <<>> THEN <<>>
    ELSE IF Head(v) = NL THEN <<NL, SP>> \o Fold(Tail(v))
    ELSE <<Head(v)>> \o Fold(Tail(v))

\* the value taken as it stands in the payload, its folding left in
Unfold_Skipped(v) == v

\* value.replace(b'\n ', b'\n'): leftmost, non-overlapping
RECURSIVE Unfold(_)
Unfold(v) ==
    IF v = <<>> THEN <<>>
    ELSE IF Len(v) >= 2 /\ v[1] = NL /\ v[2] = SP
         THEN <<NL>> \o Unfold(SubSeq(v, 3, Len(v)))
    ELSE <<Head(v)>> \o Unfold(Tail(v))

\* all byte strings over alphabet A of length at most n
BytesUpTo(A, n) == UNION {[1..k -> A] : k \in 0..n}

-----------------------------------------------------------------------------
(* The commit format: an OrderedDict is a sequence of entries               *)
(* [key, isList, vals]; a bare value v is isList = FALSE, vals = <<v>>.     *)

Keys(dct) == {dct[i].key : i \in 1..Len(dct)}

IndexOfKey(dct, key) == CHOOSE i \in 1..Len(dct) : dct[i].key = key

\* dct[key] = value
DictSet(dct, key, value) ==
    LET e == [key |-> key, isList |-> FALSE, vals |-> <<value>>]
    IN  IF key \in Keys(dct)
        THEN [dct EXCEPT ![IndexOfKey(dct, key)] = e]
        ELSE Append(dct, e)

\* lines 286-292: the first value is stored bare, a second one turns the
\* entry into a list, later ones are appended
DictAdd(dct, key, value) ==
    IF key \in Keys(dct)
    THEN LET i == IndexOfKey(dct, key)
         IN  [dct EXCEPT ![i] = [key |-> key, isList |-> TRUE,
                                  vals |-> Append(dct[i].vals, value)]]
    ELSE DictSet(dct, key, value)

\* lines 279-282: the while loop, entered with the current value of `end`.
\* The loop's whole state is `end`: a value of `end` that comes back means
\* the loop never exits.
RECURSIVE ScanEnd(_, _, _)
ScanEnd(raw, end, visited) ==
    LET e == Find(raw, NL, end + 1)
    IN  IF e + 1 >= Len(raw) THEN [kind |-> "IndexError", end |-> e]
        ELSE IF raw[e + 2] # SP THEN [kind |-> "ok", end |-> e]
        ELSE IF e \in visited THEN [kind |-> "Hang", end |-> e]
        ELSE ScanEnd(raw, e, visited \cup {e})

ParseFail(kind) == [kind |-> kind, dct |-> <<>>]

\* parse_commit_format(raw, start, dct).  `starts` holds the cursor values of
\* the calls in progress: the scan reads only raw and start, so a call at a
\* cursor already in progress recurses until Python's RecursionError.
RECURSIVE ParseFrom(_, _, _, _)
ParseFrom(raw, start, dct, starts) ==
    LET space_pos == Find(raw, SP, start)
        newline_pos == Find(raw, NL, start)
    IN  IF space_pos < 0 \/ newline_pos < space_pos
        THEN IF newline_pos # start
             THEN ParseFail("AssertionError")
             ELSE [kind |-> "ok",
                   dct |-> DictSet(dct, <<>>, SliceFrom(raw, start + 1))]
        ELSE LET key == Slice(raw, start, space_pos)
                 sc == ScanEnd(raw, start, {})
             IN  IF sc.kind # "ok" THEN ParseFail(sc.kind)
                 ELSE LET value == Unfold(Slice(raw, space_pos + 1, sc.end))
                          next == sc.end + 1
                      IN  IF next \in starts THEN ParseFail("RecursionError")
                          ELSE ParseFrom(raw, next, DictAdd(dct, key, value),
                                         starts \cup {next})

parse_commit_format(raw) == ParseFrom(raw, 0, <<>>, {0})

\* lines 301-309: the header lines of one entry
RECURSIVE EntryLines(_, _)
EntryLines(key, vals) ==
    IF vals = <<>> THEN <<>>
    ELSE key \o <<SP>> \o Fold(Head(vals)) \o <<NL>> \o EntryLines(key, Tail(vals))

RECURSIVE HeaderLines(_)
HeaderLines(dct) ==
    IF dct = <<>> THEN <<>>
    ELSE (IF Head(dct).key = <<>> THEN <<>>
          ELSE EntryLines(Head(dct).key, Head(dct).vals))
         \o HeaderLines(Tail(dct))

\* serialize_commit_format(commit_dict); commit_dict[b''] must exist (KeyError)
\* and be bytes (TypeError)
serialize_commit_format(dct) ==
    IF <<>> \notin Keys(dct) THEN [kind |-> "KeyError", data |-> <<>>]
    ELSE LET m == dct[IndexOfKey(dct, <<>>)]
         IN  IF m.isList THEN [kind |-> "TypeError", data |-> <<>>]
             ELSE [kind |-> "ok", data |-> HeaderLines(dct) \o <<NL>> \o m.vals[1]]

-----------------------------------------------------------------------------
(* Objects.  A GitObject is [cls, type, blobdata, commit_dict]: GitBlob     *)
(* keeps its bytes in blobdata, GitCommit its OrderedDict in commit_dict.   *)
(* GitTree and GitTag are named by the code and defined nowhere.            *)

GitBlob(data) ==
    [cls |-> "GitBlob", type |-> B_blob, blobdata |-> data, commit_dict |-> <<>>]

GitCommitOf(dct) ==
    [cls |-> "GitCommit", type |-> B_commit, blobdata |-> <<>>, commit_dict |-> dct]

NoObject == [cls |-> "none", type |-> <<>>, blobdata |-> <<>>, commit_dict |-> <<>>]

Fail(kind) == [kind |-> kind, obj |-> NoObject]

\* GitCommit(repo, data): __init__ calls deserialize, which parses
GitCommit(data) ==
    LET p == parse_commit_format(data)
    IN  IF p.kind = "ok" THEN [kind |-> "ok", obj |-> GitCommitOf(p.dct)]
        ELSE Fail(p.kind)

\* obj.serialize()
Serialize(obj) ==
    IF obj.cls = "GitCommit" THEN serialize_commit_format(obj.commit_dict)
    ELSE [kind |-> "ok", data |-> obj.blobdata]

\* a frame whose declared length counts the NUL as well
Frame_LengthWithNul(type, data) ==
    type \o <<SP>> \o ToDecimal(Len(data) + 1) \o <<NUL>> \o data

\* line 214: the frame, type SPACE decimal-length NUL payload
Frame(type, data) == type \o <<SP>> \o ToDecimal(Len(data)) \o <<NUL>> \o data

\* zlib.compress / zlib.decompress: a header, the data and a checksum of it;
\* decompress raises zlib.error on anything else, the empty file included
Checksum(s) == Digits[(Len(s) % 10) + 1]

ZlibCompress(s) == <<"zlib">> \o s \o <<Checksum(s)>>

ZlibDecompress(z) ==
    IF Len(z) >= 2 /\ z[1] = "zlib"
       /\ z[Len(z)] = Checksum(SubSeq(z, 2, Len(z) - 1))
    THEN [ok |-> TRUE, data |-> SubSeq(z, 2, Len(z) - 1)]
    ELSE [ok |-> FALSE, data |-> <<>>]

\* lines 187-206 of read_object: the decompressed bytes to a typed object
DecodeFrame(raw) ==
    LET space_pos == Find(raw, SP, 0)
        null_pos == Find(raw, NUL, 0)
        object_type == Slice(raw, 0, space_pos)
        size == IntParse(Slice(raw, space_pos + 1, null_pos))
        payload == SliceFrom(raw, null_pos + 1)
    IN  IF ~size.ok THEN Fail("ValueError")
        ELSE IF size.val # Len(raw) - 1 - null_pos THEN Fail("Malformed")
        ELSE IF object_type = B_commit THEN GitCommit(payload)
        ELSE IF object_type = B_tree THEN Fail("NameError")
        ELSE IF object_type = B_tag THEN Fail("NameError")
        ELSE IF object_type = B_blob THEN [kind |-> "ok", obj |-> GitBlob(payload)]
        ELSE Fail("UnknownType")

\* An object name as Python holds it: a str (as the command line gives it) or
\* bytes (as a header value of a commit is)
StrId(hex) == [k |-> "str", v |-> hex]

BytesId(hex) == [k |-> "bytes", v |-> hex]

\* sha[:2], sha[2:]
PathOf(hex) == <<Slice(hex, 0, 2), SliceFrom(hex, 2)>>

\* os.makedirs(path): the leaf must not exist
MakeDirs(ds, d) ==
    IF d \in ds THEN [kind |-> "FileExistsError", dirs |-> ds]
    ELSE [kind |-> "ok", dirs |-> ds \cup {d}]

\* get_repo_dir_path without the os.path.exists test of line 48
get_repo_dir_path_NoExistsTest(ds, d, mkdir) ==
    IF mkdir
    THEN LET m == MakeDirs(ds, d)
         IN  [kind |-> m.kind, ret |-> "path", dirs |-> m.dirs]
    ELSE [kind |-> "ok", ret |-> IF d \in ds THEN "path" ELSE "None", dirs |-> ds]

\* get_repo_dir_path(repo, 'objects', d, mkdir): ret is "path" or "None".
\* Only directories are ever created under objects/, so the isdir test
\* of line 49 holds whenever the path exists.
get_repo_dir_path(ds, d, mkdir) ==
    IF d \in ds THEN [kind |-> "ok", ret |-> "path", dirs |-> ds]
    ELSE IF mkdir
         THEN LET m == MakeDirs(ds, d)
              IN  [kind |-> m.kind, ret |-> "path", dirs |-> m.dirs]
         ELSE [kind |-> "ok", ret |-> "None", dirs |-> ds]

\* read_object(repo, sha) on the store (ds, fs).  os.path.join refuses to mix
\* the str gitdir with a bytes component; open(None) is a TypeError too.
read_object(ds, fs, sha) ==
    IF sha.k = "bytes" THEN Fail("TypeError")
    ELSE LET path == PathOf(sha.v)
         IN  IF get_repo_dir_path(ds, path[1], FALSE).ret = "None"
             THEN Fail("TypeError")
             ELSE IF path \notin DOMAIN fs THEN Fail("FileNotFoundError")
             ELSE LET z == ZlibDecompress(fs[path])
                  IN  IF ~z.ok THEN Fail("zlib.error") ELSE DecodeFrame(z.data)

\* hashlib.sha1(frame).hexdigest(): a 4-character stand-in for the 40
\* characters, the i-th distinct frame hashed getting the i-th id; ids 2j-1
\* and 2j share their first two characters (their subdirectory).
HexId(i) ==
    <<"a", Digits[(((i - 1) \div 2) % 10) + 1],
      Digits[((i - 1) % 2) + 1], Digits[(((i - 1) \div 20) % 10) + 1]>>

Sha1(dg, frame) ==
    IF frame \in DOMAIN dg THEN dg[frame]
    ELSE HexId(Cardinality(DOMAIN dg) + 1)

Hashed(dg, frame) ==
    IF frame \in DOMAIN dg THEN dg ELSE dg @@ (frame :> Sha1(dg, frame))

\* lines 222-223: open(path, 'wb') leaves the file empty, the write and the
\* close of the with block leave it holding the compressed frame
OpenWb(fs, path) == [p \in DOMAIN fs \cup {path} |-> IF p = path THEN <<>> ELSE fs[p]]

WriteClose(fs, path, z) == [p \in DOMAIN fs \cup {path} |-> IF p = path THEN z ELSE fs[p]]

\* write_object(obj, to_disk) run to its end on the store (ds, fs, dg)
write_object(ds, fs, dg, obj, to_disk) ==
    LET s == Serialize(obj)
        result == Frame(obj.type, s.data)
        sha == Sha1(dg, result)
        path == PathOf(sha)
        d == get_repo_dir_path(ds, path[1], TRUE)
        same == [kind |-> s.kind, sha |-> <<>>, data |-> s.data,
                 dirs |-> ds, files |-> fs, digest |-> dg]
    IN  IF s.kind # "ok" THEN same
        ELSE IF ~to_disk
             THEN [same EXCEPT !.sha = sha, !.digest = Hashed(dg, result)]
        ELSE IF d.kind # "ok"
             THEN [same EXCEPT !.kind = d.kind, !.digest = Hashed(dg, result)]
        ELSE [kind |-> "ok", sha |-> sha, data |-> s.data, dirs |-> d.dirs,
              files |-> WriteClose(OpenWb(fs, path), path, ZlibCompress(result)),
              digest |-> Hashed(dg, result)]

\* hash_object(fd, type, repo): data is what fd.read() gives, write says
\* whether repo is a Repository (truthy) or None
hash_object(ds, fs, dg, data, type, write) ==
    LET c == GitCommit(data)
        none == [kind |-> "NameError", sha |-> <<>>, data |-> data,
                 dirs |-> ds, files |-> fs, digest |-> dg]
    IN  IF type = B_commit
        THEN IF c.kind = "ok" THEN write_object(ds, fs, dg, c.obj, write)
             ELSE [none EXCEPT !.kind = c.kind]
        ELSE IF type = B_tree THEN none
        ELSE IF type = B_tag THEN none
        ELSE [none EXCEPT !.kind = "UnknownType"]

-----------------------------------------------------------------------------
(* Inputs of the commit-format functions *)

HeaderKeys == {<<"k">>, <<"p">>}

ValAlphabet == {"a", SP, NL}

Messages == {<<>>, <<"m">>, <<SP, "m", NL, NL>>}

\* the sequences of header lines [key, val] of size at most n
RECURSIVE LineSeqs(_)
LineSeqs(n) ==
    IF n <= 0 THEN {<<>>}
    ELSE {<<>>} \cup UNION {
            {<<[key |-> kv[1], val |-> kv[2]]>> \o r : r \in LineSeqs(n - 1 - Len(kv[2]))}
            : kv \in HeaderKeys \X BytesUpTo(ValAlphabet, n - 1)}

\* the OrderedDict a caller builds from header lines: keys in first-seen
\* order, a key's values in their order
RECURSIVE DictOfLines(_, _)
DictOfLines(lines, dct) ==
    IF lines = <<>> THEN dct
    ELSE DictOfLines(Tail(lines), DictAdd(dct, Head(lines).key, Head(lines).val))

\* the keys in `listed` that hold one value hold it as a list of one
Listify(dct, listed) ==
    [i \in 1..Len(dct) |->
        IF dct[i].key \in listed THEN [dct[i] EXCEPT !.isList = TRUE] ELSE dct[i]]

\* CommitRecords: headers, then the message under b''
Records ==
    {Append(Listify(DictOfLines(ls, <<>>), listed),
            [key |-> <<>>, isList |-> FALSE, vals |-> <<m>>])
        : ls \in LineSeqs(MaxSize), listed \in SUBSET HeaderKeys, m \in Messages}

RawPayloads == BytesUpTo({"k", SP, NL}, MaxRawLen)

NoParse == [kind |-> "none", dct |-> <<>>]

NoInput == [f |-> "none", rec |-> <<>>, raw |-> <<>>]

NoRes ==
    [op |-> "none", kind |-> "none", type |-> <<>>, data |-> <<>>, sha |-> <<>>,
     write |-> FALSE, again |-> FALSE, first |-> <<>>, got |-> Fail("none"),
     prevDirs |-> {}, prevFiles |-> <<>>]

NoRead == [op |-> "none", sha |-> <<>>, type |-> <<>>, data |-> <<>>, got |-> Fail("none")]

NoOutput == [op |-> "none", ser |-> [kind |-> "none", data |-> <<>>], parsed |-> NoParse]

-----------------------------------------------------------------------------
(* SpecCommit: serialize_commit_format and parse_commit_format applied to   *)
(* a generated record or payload                                            *)

StoreIdle ==
    /\ dirs = {}
    /\ files = <<>>
    /\ digest = <<>>
    /\ res = NoRes
    /\ returned = {}

ConcIdle ==
    /\ wpc = <<>>
    /\ wjob = <<>>
    /\ wres = <<>>
    /\ rres = NoRead

FmtIdle ==
    /\ input = NoInput
    /\ output = NoOutput

WalkIdle ==
    /\ wstack = <<>>
    /\ seen = {}
    /\ edges = <<>>
    /\ expanded = <<>>
    /\ walk = [state |-> "idle", start |-> <<>>, kind |-> "none"]

InitCommit ==
    /\ input \in {[f |-> "record", rec |-> r, raw |-> <<>>] : r \in Records}
                 \cup {[f |-> "raw", rec |-> <<>>, raw |-> w] : w \in RawPayloads}
    /\ output = NoOutput
    /\ StoreIdle
    /\ ConcIdle
    /\ WalkIdle

\* serialize_commit_format(record)
SerializeRecord ==
    /\ input.f = "record"
    /\ output.op = "none"
    /\ output' = [op |-> "serialize", ser |-> serialize_commit_format(input.rec),
                  parsed |-> NoParse]
    /\ UNCHANGED <<input, storeVars, seqVars, concVars, walkVars>>

\* parse_commit_format(serialize_commit_format(record))
ParseSerialized ==
    /\ output.op = "serialize"
    /\ output.ser.kind = "ok"
    /\ output' = [output EXCEPT !.op = "parse",
                                !.parsed = parse_commit_format(output.ser.data)]
    /\ UNCHANGED <<input, storeVars, seqVars, concVars, walkVars>>

\* parse_commit_format(payload)
ParsePayload ==
    /\ input.f = "raw"
    /\ output.op = "none"
    /\ output' = [op |-> "parse", ser |-> [kind |-> "none", data |-> <<>>],
                  parsed |-> parse_commit_format(input.raw)]
    /\ UNCHANGED <<input, storeVars, seqVars, concVars, walkVars>>

NextCommit == SerializeRecord \/ ParseSerialized \/ ParsePayload

SpecCommit == InitCommit /\ [][NextCommit]_vars

\* a record as parse_commit_format shapes it: one value is held bare
Canonical(dct) ==
    [i \in 1..Len(dct) |->
        IF Len(dct[i].vals) = 1 THEN [dct[i] EXCEPT !.isList = FALSE] ELSE dct[i]]

RoundTripDone == input.f = "record" /\ output.op = "parse"

\* C3 as stated: parse(serialize(R)) = R for every record R, a key held as a
\* list of exactly one value included (same keys, order, values, shape, message).
C3_RoundTripExact ==
    RoundTripDone => output.parsed.kind = "ok" /\ output.parsed.dct = input.rec

\* C3 amended: parse(serialize(R)) has R's keys in R's order, each key's values
\* in their order with embedded newlines restored, and R's message; a key with
\* two or more values comes back as a list and a key with exactly one value
\* comes back bare, also when R held it as a list of one.
C3_RoundTripCanonical ==
    RoundTripDone =>
        /\ output.parsed.kind = "ok"
        /\ output.parsed.dct = Canonical(input.rec)

\* a round trip of a record with a two-valued key and a value holding a newline
C3_Witness ==
    /\ RoundTripDone
    /\ \E i \in 1..Len(input.rec) :
          /\ Len(input.rec[i].vals) = 2
          /\ \E j \in 1..2 : \E n \in 1..Len(input.rec[i].vals[j]) :
                input.rec[i].vals[j][n] = NL

\* the spec's reading: scanning header after header from cursor c, some value
\* has no terminator, a newline followed by a byte that is not a space
RECURSIVE ValueCutShort(_, _)
ValueCutShort(raw, c) ==
    LET sp == Find(raw, SP, c)
        nl == Find(raw, NL, c)
        T == {e \in (sp + 1)..(Len(raw) - 2) : raw[e + 1] = NL /\ raw[e + 2] # SP}
    IN  IF sp < 0 \/ (nl >= 0 /\ nl < sp) THEN FALSE
        ELSE IF T = {} THEN TRUE
        ELSE ValueCutShort(raw, MinOf(T) + 1)

\* the exceptions raised where the scan meets the end of the input
FormatErrorKinds == {"AssertionError", "IndexError"}

\* C7: a payload whose value in progress meets end-of-input before its
\* terminator makes parse_commit_format stop with a format error: no record,
\* no restart of the scan from an earlier cursor, no other failure.
C7_CutShortIsFormatError ==
    (input.f = "raw" /\ output.op = "parse" /\ ValueCutShort(input.raw, 0))
        => output.parsed.kind \in FormatErrorKinds

-----------------------------------------------------------------------------
(* Spec: the object store used by one caller at a time                      *)

BlobData == {<<>>, <<"x">>, <<NUL, SP>>}

\* commit_dicts put as GitCommit objects: a bare message, a folded value,
\* a list of one value
StoreRecords ==
    { <<[key |-> <<>>, isList |-> FALSE, vals |-> << <<>> >>]>>,
      <<[key |-> <<"k">>, isList |-> FALSE, vals |-> << <<"a", NL, SP>> >>],
        [key |-> <<>>, isList |-> FALSE, vals |-> << <<"m">> >>]>>,
      <<[key |-> <<"k">>, isList |-> TRUE, vals |-> << <<"a">> >>],
        [key |-> <<>>, isList |-> FALSE, vals |-> << <<>> >>]>> }

PutObjects == {GitBlob(d) : d \in BlobData} \cup {GitCommitOf(r) : r \in StoreRecords}

HashTypes == {B_blob, B_commit, B_tree, B_tag, <<"x">>}

HashData == {<<"x">>, <<"k", SP, "a", NL, NL>>}

Init ==
    /\ StoreIdle
    /\ ConcIdle
    /\ FmtIdle
    /\ WalkIdle

\* the digest table has room for the frame
CanHash(frame) == frame \in DOMAIN digest \/ Cardinality(DOMAIN digest) < MaxObjects

FirstSha(type, data) ==
    IF \E p \in returned : p.type = type /\ p.data = data
    THEN (CHOOSE p \in returned : p.type = type /\ p.data = data).sha
    ELSE <<>>

Record(op, r, type, write) ==
    [op |-> op, kind |-> r.kind, type |-> type, data |-> r.data, sha |-> r.sha,
     write |-> write,
     again |-> \E p \in returned : p.type = type /\ p.data = r.data,
     first |-> FirstSha(type, r.data), got |-> Fail("none"),
     prevDirs |-> dirs, prevFiles |-> files]

Apply(op, r, type, write) ==
    /\ dirs' = r.dirs
    /\ files' = r.files
    /\ digest' = r.digest
    /\ res' = Record(op, r, type, write)
    /\ returned' = IF r.kind = "ok" /\ write
                   THEN returned \cup {[type |-> type, data |-> r.data, sha |-> r.sha]}
                   ELSE returned

\* Put: write_object(obj) with to_disk set
Put ==
    \E obj \in PutObjects :
        /\ CanHash(Frame(obj.type, Serialize(obj).data))
        /\ Apply("put", write_object(dirs, files, digest, obj, TRUE), obj.type, TRUE)
        /\ UNCHANGED <<concVars, fmtVars, walkVars>>

\* Get: read_object(repo, sha) with sha a str
Get ==
    \E i \in 1..MaxObjects :
        /\ res' = [NoRes EXCEPT !.op = "get", !.sha = HexId(i),
                                !.got = read_object(dirs, files, StrId(HexId(i))),
                                !.prevDirs = dirs, !.prevFiles = files]
        /\ UNCHANGED <<storeVars, returned, concVars, fmtVars, walkVars>>

\* hash_object(fd, type, repo)
HashObject ==
    \E data \in HashData, type \in HashTypes, write \in BOOLEAN :
        /\ \/ type # B_commit
           \/ GitCommit(data).kind # "ok"
           \/ CanHash(Frame(type, Serialize(GitCommit(data).obj).data))
        /\ Apply("hash", hash_object(dirs, files, digest, data, type, write), type, write)
        /\ UNCHANGED <<concVars, fmtVars, walkVars>>

Next == Put \/ Get \/ HashObject

Spec == Init /\ [][Next]_vars

\* read_object(X) gives an object of type T whose payload is P
Reads(ds, fs, hex, type, data) ==
    LET g == read_object(ds, fs, StrId(hex))
    IN  /\ g.kind = "ok"
        /\ g.obj.type = type
        /\ Serialize(g.obj) = [kind |-> "ok", data |-> data]

\* C1: once Put(T, P) has returned X, the entry lives in directory X[0:2]
\* under the name X[2:], and Get(X) returns an object of type T with payload P.
C1_GetAfterPut ==
    /\ \A p \in returned :
          /\ PathOf(p.sha)[1] \in dirs
          /\ PathOf(p.sha) \in DOMAIN files
          /\ Reads(dirs, files, p.sha, p.type, p.data)
    /\ res.op = "get" =>
          \A p \in returned :
              p.sha = res.sha =>
                  /\ res.got.kind = "ok"
                  /\ res.got.obj.type = p.type
                  /\ Serialize(res.got.obj).data = p.data

\* a Get has returned a commit that an earlier Put stored, another object
\* being in the store as well
C1_Witness ==
    /\ res.op = "get"
    /\ res.got.kind = "ok"
    /\ res.got.obj.cls = "GitCommit"
    /\ Len(res.got.obj.commit_dict) = 2
    /\ \E p \in returned : p.sha = res.sha
    /\ \E p \in returned : p.type = B_blob

\* C2: a Put of a (T, P) that was Put before returns the same id, does not
\* raise, and leaves the directories and every file's bytes as they were.
C2_PutIdempotent ==
    (res.op = "put" /\ res.again) =>
        /\ res.kind = "ok"
        /\ res.sha = res.first
        /\ dirs = res.prevDirs
        /\ files = res.prevFiles

\* a second Put of an object, in a store holding another object too
C2_Witness ==
    /\ res.op = "put"
    /\ res.again
    /\ res.kind = "ok"
    /\ Cardinality(DOMAIN files) >= 2

\* C8: for blob, commit, tree and tag hash_object builds the object and
\* reports the id of its frame; without the write flag the store is left as
\* it was, with it the compressed frame is stored under that id.  (For a
\* commit, the data is a payload that parses.)
C8_HashObjectFourTags ==
    (/\ res.op = "hash"
     /\ res.type \in {B_blob, B_commit, B_tree, B_tag}
     /\ res.type = B_commit => GitCommit(res.data).kind = "ok")
        => /\ res.kind = "ok"
           /\ Frame(res.type, res.data) \in DOMAIN digest
           /\ res.sha = digest[Frame(res.type, res.data)]
           /\ ~res.write => dirs = res.prevDirs /\ files = res.prevFiles
           /\ res.write =>
                 /\ PathOf(res.sha) \in DOMAIN files
                 /\ files[PathOf(res.sha)] = ZlibCompress(Frame(res.type, res.data))

-----------------------------------------------------------------------------
(* SpecFrame: read_object on a store holding one entry written by another   *)
(* tool (or damaged): any byte sequence, compressed, under the id ff00      *)

TypeWords == {<<>>, B_blob, B_commit, B_tree, B_tag, <<"x">>}

TailAlphabet == {SP, NUL, "0", "1", "2", "7", "x"}

RawFrames == {w \o t : w \in TypeWords, t \in BytesUpTo(TailAlphabet, MaxTailLen)}

ForeignId == <<"f", "f", "0", "0">>

\* ids asked for: the entry, a name missing from its directory, a missing directory
AskedIds == {ForeignId, <<"f", "f", "0", "1">>, <<"e", "e", "0", "0">>}

InitFrame ==
    /\ input \in {[f |-> "stored", rec |-> <<>>, raw |-> w] : w \in RawFrames}
    /\ output = NoOutput
    /\ dirs = {PathOf(ForeignId)[1]}
    /\ files = (PathOf(ForeignId) :> ZlibCompress(input.raw))
    /\ digest = <<>>
    /\ res = NoRes
    /\ returned = {}
    /\ ConcIdle
    /\ WalkIdle

\* Get: read_object(repo, sha)
GetStored ==
    \E hex \in AskedIds :
        /\ res' = [NoRes EXCEPT !.op = "get", !.sha = hex,
                                !.got = read_object(dirs, files, StrId(hex)),
                                !.prevDirs = dirs, !.prevFiles = files]
        /\ UNCHANGED <<storeVars, returned, concVars, fmtVars, walkVars>>

NextFrame == GetStored

SpecFrame == InitFrame /\ [][NextFrame]_vars

GotStored == input.f = "stored" /\ res.op = "get" /\ res.sha = ForeignId

\* raw is the frame of some payload under type tag T
IsFrameOf(raw, T) ==
    \E k \in 0..Len(raw) : raw = Frame(T, SubSeq(raw, k + 1, Len(raw)))

\* C5: Get on a well-formed frame whose type tag is tree or tag fails with the
\* NotImplemented outcome: no typed value, no other variant, no other error.
C5_TreeTagNotImplemented ==
    (GotStored /\ (IsFrameOf(input.raw, B_tree) \/ IsFrameOf(input.raw, B_tag)))
        => res.got.kind = "NotImplemented"

\* the decimal length between the first space and the first NUL
DeclaredLength(raw) ==
    Slice(raw, Find(raw, SP, 0) + 1, Find(raw, NUL, 0))

\* the three ways the stored bytes are not a frame: no space, no NUL, or a
\* decimal length that is not the number of bytes after the NUL
NotAFrame(raw) ==
    \/ Find(raw, SP, 0) < 0
    \/ Find(raw, NUL, 0) < 0
    \/ /\ Find(raw, SP, 0) < Find(raw, NUL, 0)
       /\ DeclaredLength(raw) # <<>>
       /\ \A i \in 1..Len(DeclaredLength(raw)) : DeclaredLength(raw)[i] \in DigitSet
       /\ DecVal(DeclaredLength(raw)) # Len(raw) - 1 - Find(raw, NUL, 0)

\* C6: Get on stored bytes that are not a frame (no space, no NUL, or a wrong
\* declared length) fails, reporting the damage, and never returns a typed
\* value.  (Whatever exception the code raises is taken for that report.)
C6_NotAFrameIsCorrupt ==
    (GotStored /\ NotAFrame(input.raw)) => res.got.kind # "ok"

-----------------------------------------------------------------------------
(* SpecConc: two writers inside write_object at once, and a reader          *)

Writers == {"w1", "w2"}

ConcObjects == {GitBlob(<<>>), GitBlob(<<"x">>), GitBlob(<<"y">>)}

NoJob == [type |-> <<>>, data |-> <<>>, frame |-> <<>>, sha |-> <<>>, puts |-> 0]

InitConc ==
    /\ StoreIdle
    /\ FmtIdle
    /\ WalkIdle
    /\ wpc = [w \in Writers |-> "idle"]
    /\ wjob = [w \in Writers |-> NoJob]
    /\ wres = [w \in Writers |-> "none"]
    /\ rres = NoRead

\* lines 209-217: serialize, frame, hash
WStart(w) ==
    /\ wpc[w] = "idle"
    /\ wjob[w].puts < MaxPuts
    /\ \E obj \in ConcObjects :
          LET data == Serialize(obj).data
              frame == Frame(obj.type, data)
          IN  /\ CanHash(frame)
              /\ digest' = Hashed(digest, frame)
              /\ wjob' = [wjob EXCEPT ![w] = [type |-> obj.type, data |-> data,
                                             frame |-> frame,
                                             sha |-> Sha1(digest, frame),
                                             puts |-> @.puts + 1]]
    /\ wpc' = [wpc EXCEPT ![w] = "exists"]
    /\ wres' = [wres EXCEPT ![w] = "running"]
    /\ UNCHANGED <<dirs, files, seqVars, rres, fmtVars, walkVars>>

\* line 48 of get_repo_dir_path: os.path.exists(path)
WExists(w) ==
    /\ wpc[w] = "exists"
    /\ wpc' = [wpc EXCEPT ![w] =
                  IF PathOf(wjob[w].sha)[1] \in dirs THEN "open" ELSE "makedirs"]
    /\ UNCHANGED <<storeVars, seqVars, wjob, wres, rres, fmtVars, walkVars>>

\* line 54: os.makedirs(path); its exception leaves write_object
WMakeDirs(w) ==
    /\ wpc[w] = "makedirs"
    /\ LET m == MakeDirs(dirs, PathOf(wjob[w].sha)[1])
       IN  /\ dirs' = m.dirs
           /\ wpc' = [wpc EXCEPT ![w] = IF m.kind = "ok" THEN "open" ELSE "idle"]
           /\ wres' = [wres EXCEPT ![w] = IF m.kind = "ok" THEN @ ELSE m.kind]
    /\ UNCHANGED <<files, digest, seqVars, wjob, rres, fmtVars, walkVars>>

\* line 222: open(path, 'wb')
WOpen(w) ==
    /\ wpc[w] = "open"
    /\ files' = OpenWb(files, PathOf(wjob[w].sha))
    /\ wpc' = [wpc EXCEPT ![w] = "write"]
    /\ UNCHANGED <<dirs, digest, seqVars, wjob, wres, rres, fmtVars, walkVars>>

\* line 223 and the end of the with block: the bytes reach the file
WWrite(w) ==
    /\ wpc[w] = "write"
    /\ files' = WriteClose(files, PathOf(wjob[w].sha), ZlibCompress(wjob[w].frame))
    /\ wpc' = [wpc EXCEPT ![w] = "return"]
    /\ UNCHANGED <<dirs, digest, seqVars, wjob, wres, rres, fmtVars, walkVars>>

\* line 225: return sha
WReturn(w) ==
    /\ wpc[w] = "return"
    /\ wpc' = [wpc EXCEPT ![w] = "idle"]
    /\ wres' = [wres EXCEPT ![w] = "ok"]
    /\ returned' = returned \cup {[type |-> wjob[w].type, data |-> wjob[w].data,
                                   sha |-> wjob[w].sha]}
    /\ UNCHANGED <<storeVars, res, wjob, rres, fmtVars, walkVars>>

\* a reader's Get of an id some Put has returned
RGet ==
    \E p \in returned :
        /\ rres' = [op |-> "get", sha |-> p.sha, type |-> p.type, data |-> p.data,
                    got |-> read_object(dirs, files, StrId(p.sha))]
        /\ UNCHANGED <<storeVars, seqVars, wpc, wjob, wres, fmtVars, walkVars>>

NextConc ==
    \/ \E w \in Writers :
          WStart(w) \/ WExists(w) \/ WMakeDirs(w) \/ WOpen(w) \/ WWrite(w) \/ WReturn(w)
    \/ RGet

SpecConc == InitConc /\ [][NextConc]_vars

\* C9: no Put fails because another writer created its subdirectory between
\* its existence check and its own creation step.
C9_NoPutFailsOnExistingDir ==
    \A w \in Writers : wres[w] # "FileExistsError"

\* C10: once a Put(T, P) has returned X, the file under X holds the complete
\* compressed frame of (T, P) in every later state, and a Get(X) returns (T, P).
C10_ReturnedObjectsImmutable ==
    /\ \A p \in returned :
          /\ PathOf(p.sha) \in DOMAIN files
          /\ files[PathOf(p.sha)] = ZlibCompress(Frame(p.type, p.data))
    /\ rres.op = "get" =>
          /\ rres.got.kind = "ok"
          /\ rres.got.obj.type = rres.type
          /\ Serialize(rres.got.obj).data = rres.data

-----------------------------------------------------------------------------
(* SpecWalk: commits are put, then log_graphviz walks from one of them      *)

WalkMessages == {<<"m">>, <<"n">>}

\* the ids of the commits in the store
StoredIds == {p.sha : p \in returned}

\* the parent lists a new commit may declare: none, one, or two distinct ones
ParentLists ==
    {<<>>} \cup {<<a>> : a \in StoredIds}
           \cup {ab \in StoredIds \X StoredIds : ab[1] # ab[2]}

\* the commit_dict of a commit with these parents: one parent is held bare,
\* two as a list
CommitDict(parents, m) ==
    (IF parents = <<>> THEN <<>>
     ELSE <<[key |-> B_parent, isList |-> Len(parents) > 1, vals |-> parents]>>)
    \o <<[key |-> <<>>, isList |-> FALSE, vals |-> <<m>>]>>

InitWalk ==
    /\ StoreIdle
    /\ ConcIdle
    /\ FmtIdle
    /\ WalkIdle

\* write_object of a new commit, before the walk
PutCommit ==
    /\ walk.state = "idle"
    /\ \E parents \in ParentLists, m \in WalkMessages :
          LET obj == GitCommitOf(CommitDict(parents, m))
              frame == Frame(obj.type, Serialize(obj).data)
          IN  /\ frame \in DOMAIN digest \/ Cardinality(DOMAIN digest) < MaxCommits
              /\ Apply("put", write_object(dirs, files, digest, obj, TRUE), obj.type, TRUE)
    /\ UNCHANGED <<concVars, fmtVars, walkVars>>

Call(sha) == [sha |-> sha, pc |-> "entry", parents |-> <<>>, i |-> 0]

\* cmd_log: log_graphviz(repo, name, set()) with the name a str
WalkStart ==
    /\ walk.state = "idle"
    /\ \E hex \in StoredIds :
          /\ wstack' = <<Call(StrId(hex))>>
          /\ walk' = [state |-> "running", start |-> hex, kind |-> "none"]
    /\ seen' = {}
    /\ edges' = <<>>
    /\ expanded' = <<>>
    /\ UNCHANGED <<storeVars, seqVars, concVars, fmtVars>>

Top == wstack[Len(wstack)]

Popped == SubSeq(wstack, 1, Len(wstack) - 1)

\* the call on top returns; the walk is over when it was the first call
Return ==
    /\ wstack' = Popped
    /\ walk' = IF Popped = <<>> THEN [walk EXCEPT !.state = "done", !.kind = "ok"]
               ELSE walk

\* an exception leaves every call
Raise(kind) ==
    /\ wstack' = <<>>
    /\ walk' = [walk EXCEPT !.state = "done", !.kind = kind]

\* lines 336-349: the visited test, read_object, the parents of the commit
WalkEnter ==
    /\ walk.state = "running"
    /\ Top.pc = "entry"
    /\ IF Top.sha \in seen
       THEN Return /\ UNCHANGED <<seen, expanded>>
       ELSE LET g == read_object(dirs, files, Top.sha)
                d == g.obj.commit_dict
            IN  /\ seen' = seen \cup {Top.sha}
                /\ IF g.kind # "ok"
                   THEN Raise(g.kind) /\ UNCHANGED expanded
                   ELSE /\ expanded' = Append(expanded, Top.sha)
                        /\ IF g.obj.type # B_commit THEN Raise("AssertionError")
                           ELSE IF B_parent \notin Keys(d) THEN Return
                           ELSE /\ wstack' = [wstack EXCEPT ![Len(wstack)] =
                                      [@ EXCEPT !.pc = "loop", !.i = 1,
                                                !.parents = d[IndexOfKey(d, B_parent)].vals]]
                                /\ UNCHANGED walk
    /\ UNCHANGED <<edges, storeVars, seqVars, concVars, fmtVars>>

\* lines 351-353: print the edge to the next parent and call log_graphviz on
\* it; the parent is the bytes value of the header
WalkLoop ==
    /\ walk.state = "running"
    /\ Top.pc = "loop"
    /\ IF Top.i > Len(Top.parents)
       THEN Return /\ UNCHANGED edges
       ELSE /\ edges' = Append(edges, [child |-> Top.sha, parent |-> Top.parents[Top.i]])
            /\ wstack' = Append([wstack EXCEPT ![Len(wstack)].i = @ + 1],
                                Call(BytesId(Top.parents[Top.i])))
            /\ UNCHANGED walk
    /\ UNCHANGED <<seen, expanded, storeVars, seqVars, concVars, fmtVars>>

NextWalk == PutCommit \/ WalkStart \/ WalkEnter \/ WalkLoop

SpecWalk == InitWalk /\ [][NextWalk]_vars

\* the parents the stored commit hex declares
DeclaredParents(hex) ==
    LET d == parse_commit_format((CHOOSE p \in returned : p.sha = hex).data).dct
    IN  IF B_parent \in Keys(d) THEN d[IndexOfKey(d, B_parent)].vals ELSE <<>>

RECURSIVE ReachableFrom(_)
ReachableFrom(S) ==
    LET more == S \cup UNION {{DeclaredParents(c)[i] : i \in 1..Len(DeclaredParents(c))} : c \in S}
    IN  IF more = S THEN S ELSE ReachableFrom(more)

Count(seq, x) == Cardinality({i \in 1..Len(seq) : seq[i] = x})

\* C4: a walk over the commit graph of the store ends without error, resolves
\* each commit reachable from its start exactly once, and prints exactly one
\* edge (c, p) for each reachable commit c and each parent p it declares, and
\* no other edge.  (On the diamond from D: (D,B), (D,C), (B,A), (C,A).)
C4_WalkEmitsDeclaredEdges ==
    walk.state = "done" =>
        LET R == ReachableFrom({walk.start})
        IN  /\ walk.kind = "ok"
            /\ \A c \in R : Count(expanded, StrId(c)) + Count(expanded, BytesId(c)) = 1
            /\ \A i \in 1..Len(expanded) : expanded[i].v \in R
            /\ \A c \in R : \A j \in 1..Len(DeclaredParents(c)) :
                  Cardinality({i \in 1..Len(edges) :
                                  /\ edges[i].child.v = c
                                  /\ edges[i].parent = DeclaredParents(c)[j]}) = 1
            /\ \A i \in 1..Len(edges) :
                  /\ edges[i].child.v \in R
                  /\ \E j \in 1..Len(DeclaredParents(edges[i].child.v)) :
                        edges[i].parent = DeclaredParents(edges[i].child.v)[j]

====
